---- MODULE Spec2Model ----
(***************************************************************************)
(* A model of the HubSpot middleware (src/app/main.py, src/app/hubspot.py). *)
(*                                                                         *)
(* Python strings are modelled as sequences of one-character strings, so   *)
(* that strip(), lower(), startswith() and the substring test `x in s` are *)
(* computed character by character.  The absent value None is the          *)
(* sequence None below, which is no string.                                *)
(*                                                                         *)
(* Three specifications share the module:                                  *)
(*   SpecNorm  normalize_permit_stage applied to one input;                *)
(*   SpecGM    the grouping loop of get_gm_dashboard_data, one iteration   *)
(*             per step;                                                   *)
(*   Spec      the HTTP service: requests, the token gate, the handlers    *)
(*             and their outbound CRM calls, one request at a time.        *)
(* The handlers share nothing but SALES_REP_CACHE; every step takes the    *)
(* task it moves as a parameter, so that requests can be interleaved at    *)
(* their awaits.                                                           *)
(***************************************************************************)
EXTENDS Integers, Sequences, FiniteSets, TLC

VARIABLES
    stage,            \* SpecNorm: the argument of normalize_permit_stage
    normalized,       \* SpecNorm: its return value
    norm_pc,          \* SpecNorm: "call" before the call, "returned" after
    deals,            \* SpecGM: the deals returned by search_deals_by_company
    agent_email_map,  \* SpecGM: the map returned by build_sales_rep_map
    dashboard_data,   \* SpecGM: the structure built by get_gm_dashboard_data
    gm_i,             \* SpecGM: number of deals the loop has processed
    gm_pc,            \* SpecGM: "loop" | "returned"
    JWT_SECRET,       \* Spec: the configured signing secret, or None
    SALES_REP_CACHE,  \* Spec: the module-level cache of build_sales_rep_map
    pc,               \* Spec: per task, "idle", "done" or the CRM call awaited
    ep,               \* Spec: per task, the endpoint (handler) requested
    hdr,              \* Spec: per task, the Authorization header
    arg,              \* Spec: per task, the email path parameter, or None
    calls,            \* Spec: per task, the outbound CRM calls of the request
    loc,              \* Spec: per task, the locals kept across the awaits
    resp              \* Spec: per task, the response [status, body]

norm_vars == <<stage, normalized, norm_pc>>

gm_vars == <<deals, agent_email_map, dashboard_data, gm_i, gm_pc>>

task_vars == <<pc, ep, hdr, arg, calls, loc, resp>>

srv_vars == <<JWT_SECRET, SALES_REP_CACHE, task_vars>>

vars == <<norm_vars, gm_vars, srv_vars>>

-----------------------------------------------------------------------------
(* Bounds of the model.                                                    *)

\* Longest run of whitespace put before and after a stage value.
MaxPad == 1

\* Longest arbitrary (unrecognised) stage value enumerated letter by letter.
MaxShortLen == 2

\* Largest number of deals a company search returns in SpecGM.
MaxDeals == 2

\* The page size of the CRM in the model.  The searches ask for "limit": 100
\* and the code never reads the limit or the number of results again, so the
\* page is scaled down; a response may say that a next page exists.
MaxPage == 3

-----------------------------------------------------------------------------
(* Characters and strings.                                                 *)

LOWERS == <<"a","b","c","d","e","f","g","h","i","j","k","l","m",
            "n","o","p","q","r","s","t","u","v","w","x","y","z">>

UPPERS == <<"A","B","C","D","E","F","G","H","I","J","K","L","M",
            "N","O","P","Q","R","S","T","U","V","W","X","Y","Z">>

\* The characters str.strip() removes (those of the model's alphabet).
Whitespace == {" ", "\t", "\n"}

\* Python None: not a string, since no character is four letters long.
None == <<"None">>

\* str.lower() on one character.
LowerChar(c) ==
    IF \E i \in DOMAIN UPPERS : UPPERS[i] = c
    THEN LOWERS[CHOOSE i \in DOMAIN UPPERS : UPPERS[i] = c]
    ELSE c

\* str.upper() on one character (used to build inputs only).
UpperChar(c) ==
    IF \E i \in DOMAIN LOWERS : LOWERS[i] = c
    THEN UPPERS[CHOOSE i \in DOMAIN LOWERS : LOWERS[i] = c]
    ELSE c

\* str.lower()
Lower(s) == [i \in 1..Len(s) |-> LowerChar(s[i])]

\* A plausible slip: only the leading whitespace is removed (lstrip).
Strip_LeadingOnly(s) ==
    LET keep == {i \in 1..Len(s) : s[i] \notin Whitespace}
    IN  IF keep = {} THEN <<>>
        ELSE SubSeq(s, CHOOSE i \in keep : \A j \in keep : i <= j, Len(s))

\* str.strip(): drop leading and trailing whitespace, keep the inner one.
Strip(s) ==
    LET keep == {i \in 1..Len(s) : s[i] \notin Whitespace}
    IN  IF keep = {} THEN <<>>
        ELSE SubSeq(s, CHOOSE i \in keep : \A j \in keep : i <= j,
                       CHOOSE i \in keep : \A j \in keep : i >= j)

\* The substring test `x in s`, case-sensitive.
Contains(x, s) ==
    \E i \in 0..(Len(s) - Len(x)) : SubSeq(s, i + 1, i + Len(x)) = x

\* Python truthiness of an optional string: None and "" are falsy.
Truthy(s) == s # None /\ s # <<>>

-----------------------------------------------------------------------------
(* String literals of the source.                                          *)

K_FeeEstimate == <<"2","9","0","9","5","5","6","4","6","8">>

K_Intake == <<"a","p","p","o","i","n","t","m","e","n","t","s","c","h","e","d","u","l","e","d">>

K_PreSubmittal == <<"q","u","a","l","i","f","i","e","d","t","o","b","u","y">>

K_Submittal == <<"p","r","e","s","e","n","t","a","t","i","o","n","s","c","h","e","d","u","l","e","d">>

K_Approved == <<"d","e","c","i","s","i","o","n","m","a","k","e","r","b","o","u","g","h","t","i","n">>

K_Closed == <<"c","o","n","t","r","a","c","t","s","e","n","t">>

K_ClosedLost == <<"c","l","o","s","e","d","l","o","s","t">>

PermitPipeline == <<" ","(","P","e","r","m","i","t"," ","P","i","p","e","l","i","n","e",")">>

S_FeeEstimate == <<"F","e","e"," ","E","s","t","i","m","a","t","e">>

S_Intake == <<"I","n","t","a","k","e">>

S_PreSubmittal == <<"P","r","e","-","S","u","b","m","i","t","t","a","l">>

S_Submittal == <<"S","u","b","m","i","t","t","a","l">>

S_Approved == <<"A","p","p","r","o","v","e","d">>

S_Closed == <<"C","l","o","s","e","d">>

S_ClosedLost == <<"C","l","o","s","e","d"," ","L","o","s","t">>

S_Issued == <<"I","s","s","u","e","d">>

S_Unknown == <<"U","n","k","n","o","w","n">>

S_Unassigned == <<"U","n","a","s","s","i","g","n","e","d">>

-----------------------------------------------------------------------------
(* Stage Normalizer.                                                       *)

\* A plausible slip: the label of closedlost does not hold the word "Closed".
PERMIT_STAGE_MAP_LostLabel ==
    (K_FeeEstimate   :> S_FeeEstimate \o PermitPipeline) @@
    (K_Intake        :> S_Intake \o PermitPipeline) @@
    (K_PreSubmittal  :> S_PreSubmittal \o PermitPipeline) @@
    (K_Submittal     :> S_Submittal \o PermitPipeline) @@
    (K_Approved      :> S_Approved \o PermitPipeline) @@
    (K_Closed        :> S_Closed \o PermitPipeline) @@
    (K_ClosedLost    :> <<"L","o","s","t">> \o PermitPipeline)

\* Internal name (from the API) -> display name (from the HubSpot UI).
PERMIT_STAGE_MAP ==
    (K_FeeEstimate   :> S_FeeEstimate \o PermitPipeline) @@
    (K_Intake        :> S_Intake \o PermitPipeline) @@
    (K_PreSubmittal  :> S_PreSubmittal \o PermitPipeline) @@
    (K_Submittal     :> S_Submittal \o PermitPipeline) @@
    (K_Approved      :> S_Approved \o PermitPipeline) @@
    (K_Closed        :> S_Closed \o PermitPipeline) @@
    (K_ClosedLost    :> S_ClosedLost \o PermitPipeline)

\* A plausible slip: the cleaned key is returned for an unmapped stage.
normalize_permit_stage_ReturnsKey(s) ==
    IF ~Truthy(s) THEN S_Unknown
    ELSE LET key == Lower(Strip(s))
         IN  IF key \in DOMAIN PERMIT_STAGE_MAP
             THEN PERMIT_STAGE_MAP[key] ELSE key

\* PERMIT_STAGE_MAP.get(key, stage) with key = str(stage).strip().lower()
normalize_permit_stage(s) ==
    IF ~Truthy(s) THEN S_Unknown
    ELSE LET key == Lower(Strip(s))
         IN  IF key \in DOMAIN PERMIT_STAGE_MAP
             THEN PERMIT_STAGE_MAP[key] ELSE s

-----------------------------------------------------------------------------
(* SpecNorm: the inputs normalize_permit_stage is applied to.              *)

\* Every whitespace string of at most n characters.
Pads(n) == UNION {[1..m -> Whitespace] : m \in 0..n}

\* s with the characters at the positions in m upper-cased.
WithUpper(s, m) == [i \in 1..Len(s) |-> IF i \in m THEN UpperChar(s[i]) ELSE s[i]]

\* Letter-case variants of s: as is, all capitals, first or last letter
\* capital, every other letter capital.
CaseVariants(s) ==
    {WithUpper(s, m) : m \in {{}, 1..Len(s), {1}, {Len(s)},
                              {i \in 1..Len(s) : i % 2 = 1}}}

\* Stage values the CRM can send that are no key of the table.
UnmappedStages ==
    { S_Submittal \o PermitPipeline,
      <<"P","e","r","m","i","t"," ">> \o S_Issued,
      <<"c","o","n","t","r","a","c","t"," ","s","e","n","t">>,
      <<"c","l","o","s","e","d","w","o","n">>,
      <<"c","l","o","s","e","d","l","o","s">>,
      <<"O","n"," ","H","o","l","d">> }
    \cup UNION {[1..m -> {"a", "B", "-"}] : m \in 0..MaxShortLen}

StageInputs ==
    {None} \cup
    { l \o b \o r :
        l \in Pads(MaxPad), r \in Pads(MaxPad),
        b \in UnmappedStages \cup
              UNION {CaseVariants(k) : k \in DOMAIN PERMIT_STAGE_MAP} }

\* The tasks of the event loop: requests in flight at the same time.
Tasks == {1, 2}

\* SALES_REP_CACHE = None
NoCache == [none |-> TRUE, map |-> <<>>]

\* The locals of a handler before its first await.
NoLocals ==
    [ owners |-> <<>>, name |-> None, contact |-> <<>>, deals |-> <<>>,
      reps |-> <<>>, note_id |-> 0 ]

\* No response yet.
NoResponse == [status |-> 0, body |-> [pending |-> TRUE]]

\* The state of Spec's variables in the other specifications.
IdleServer ==
    /\ JWT_SECRET = None
    /\ SALES_REP_CACHE = NoCache
    /\ pc = [t \in Tasks |-> "idle"]
    /\ ep = [t \in Tasks |-> "none"]
    /\ hdr = [t \in Tasks |-> None]
    /\ arg = [t \in Tasks |-> None]
    /\ calls = [t \in Tasks |-> <<>>]
    /\ loc = [t \in Tasks |-> NoLocals]
    /\ resp = [t \in Tasks |-> NoResponse]

IdleGM ==
    /\ deals = <<>>
    /\ agent_email_map = <<>>
    /\ dashboard_data = <<>>
    /\ gm_i = 0
    /\ gm_pc = "idle"

InitNorm ==
    /\ stage \in StageInputs
    /\ normalized = None
    /\ norm_pc = "call"
    /\ IdleGM
    /\ IdleServer

\* The state of SpecNorm's variables in the other specifications.
IdleNorm ==
    /\ stage = None
    /\ normalized = None
    /\ norm_pc = "idle"

Normalize ==
    /\ norm_pc = "call"
    /\ normalized' = normalize_permit_stage(stage)
    /\ norm_pc' = "returned"
    /\ UNCHANGED <<stage, gm_vars, srv_vars>>

NextNorm == Normalize

SpecNorm == InitNorm /\ [][NextNorm]_vars

-----------------------------------------------------------------------------
(* Claims about the Stage Normalizer.                                      *)

\* c is the letter d in either case.
SameLetter(c, d) == c = d \/ c = UpperChar(d)

\* s equals k up to letter case and leading/trailing whitespace.
MatchesKey(s, k) ==
    /\ s # None
    /\ \E i \in 0..(Len(s) - Len(k)) :
         /\ \A n \in 1..i : s[n] \in Whitespace
         /\ \A n \in 1..Len(k) : SameLetter(s[i + n], k[n])
         /\ \A n \in (i + Len(k) + 1)..Len(s) : s[n] \in Whitespace

\* C1: for every key k of PERMIT_STAGE_MAP and every input that equals k up
\* to letter case and leading/trailing whitespace, normalize_permit_stage
\* returns exactly PERMIT_STAGE_MAP[k].
C1_KnownKeysNormalized ==
    norm_pc = "returned" =>
        \A k \in DOMAIN PERMIT_STAGE_MAP :
            MatchesKey(stage, k) => normalized = PERMIT_STAGE_MAP[k]

\* A padded, not all lower-case spelling of a key has been normalized.
C1_Witness ==
    /\ norm_pc = "returned"
    /\ \E k \in DOMAIN PERMIT_STAGE_MAP :
         /\ MatchesKey(stage, k)
         /\ Len(stage) > Len(k)
         /\ stage[1] \in Whitespace /\ stage[Len(stage)] \in Whitespace
         /\ Lower(stage) # stage
         /\ normalized = PERMIT_STAGE_MAP[k]

\* C2: a non-empty input whose trimmed, lower-cased form is no key of
\* PERMIT_STAGE_MAP (whitespace-only input included) is returned unchanged,
\* neither trimmed nor lower-cased; an empty or absent input yields
\* "Unknown".
C2_UnknownPassThrough ==
    norm_pc = "returned" =>
        /\ (stage = None \/ stage = <<>>) => normalized = S_Unknown
        /\ (stage # None /\ stage # <<>>
              /\ Lower(Strip(stage)) \notin DOMAIN PERMIT_STAGE_MAP)
           => normalized = stage

\* An unrecognised input with padding and capitals came back as it went in.
C2_Witness ==
    /\ norm_pc = "returned"
    /\ stage # None /\ stage # <<>>
    /\ Lower(Strip(stage)) \notin DOMAIN PERMIT_STAGE_MAP
    /\ Strip(stage) # stage
    /\ Lower(stage) # stage
    /\ normalized = stage

-----------------------------------------------------------------------------
(* Company / GM dashboard: the loop of get_gm_dashboard_data.              *)
(* A deal is [id, dealstage, sales_rep]; the properties the loop copies    *)
(* verbatim into the table (dealname, project_address, juridstiction) are  *)
(* left out.  A Python dict is a sequence of [key, value] entries in       *)
(* insertion order.                                                        *)

\* dashboard_data as initialised before the loop.
EmptyDashboard ==
    [ summary |-> [pre_submittal |-> 0, post_submittal |-> 0, completed |-> 0],
      agents  |-> <<>>,
      permits |-> <<>> ]

\* A plausible slip: the "Submittal" test is made before the pre-submittal one.
SummaryAfter_SubmittalFirst(summary, st) ==
    IF Contains(S_Submittal, st)
    THEN [summary EXCEPT !.post_submittal = @ + 1]
    ELSE IF \E x \in {S_FeeEstimate, S_Intake, S_PreSubmittal} : Contains(x, st)
    THEN [summary EXCEPT !.pre_submittal = @ + 1]
    ELSE IF \E x \in {S_Approved, S_Closed, S_Issued} : Contains(x, st)
    THEN [summary EXCEPT !.completed = @ + 1]
    ELSE summary

\* A. Summary counts: the if / elif / elif chain on the normalized stage.
SummaryAfter(summary, st) ==
    IF \E x \in {S_FeeEstimate, S_Intake, S_PreSubmittal} : Contains(x, st)
    THEN [summary EXCEPT !.pre_submittal = @ + 1]
    ELSE IF Contains(S_Submittal, st)
    THEN [summary EXCEPT !.post_submittal = @ + 1]
    ELSE IF \E x \in {S_Approved, S_Closed, S_Issued} : Contains(x, st)
    THEN [summary EXCEPT !.completed = @ + 1]
    ELSE summary

\* A plausible slip: props.get("sales_rep", "Unassigned"), whose default
\* covers only the missing value and not the empty one.
AgentName_DefaultOnlyWhenMissing(deal) ==
    IF deal.sales_rep # None THEN deal.sales_rep ELSE S_Unassigned

\* props.get("sales_rep") or "Unassigned"
AgentName(deal) ==
    IF Truthy(deal.sales_rep) THEN deal.sales_rep ELSE S_Unassigned

\* agent_email_map.get(agent_name, "Unassigned")
AgentEmail(email_map, name) ==
    IF name \in DOMAIN email_map THEN email_map[name] ELSE S_Unassigned

\* `key in d` for a dict d.
HasKey(d, key) == \E n \in DOMAIN d : d[n].key = key

\* B. Group by sales agent: create the group on first sight, then count the
\* deal and record its id.
AgentsAfter(agents, deal, email_map) ==
    LET name == AgentName(deal)
        with == IF HasKey(agents, name) THEN agents
                ELSE Append(agents,
                            [ key   |-> name,
                              value |-> [ name |-> name,
                                          email |-> AgentEmail(email_map, name),
                                          count |-> 0,
                                          deal_ids |-> <<>> ] ])
    IN  [ n \in DOMAIN with |->
            IF with[n].key = name
            THEN [ with[n] EXCEPT !.value.count = @ + 1,
                                  !.value.deal_ids = Append(@, deal.id) ]
            ELSE with[n] ]

\* A plausible slip: the table row is appended inside the bucketing branches,
\* so a deal that matches no rule gets no row.
PermitsAfter_OnlyBucketed(permits, deal, st) ==
    IF SummaryAfter(EmptyDashboard.summary, st) = EmptyDashboard.summary
    THEN permits
    ELSE Append(permits,
                [deal_id |-> deal.id, stage |-> st, sales_agent |-> AgentName(deal)])

\* C. Table data: one row per deal.
PermitsAfter(permits, deal, st) ==
    Append(permits,
           [deal_id |-> deal.id, stage |-> st, sales_agent |-> AgentName(deal)])

\* One iteration of `for deal in deals`.
ProcessDeal(dd, deal, email_map) ==
    LET st == normalize_permit_stage(deal.dealstage)
    IN  [ summary |-> SummaryAfter(dd.summary, st),
          agents  |-> AgentsAfter(dd.agents, deal, email_map),
          permits |-> PermitsAfter(dd.permits, deal, st) ]

\* list(dashboard_data["agents"].values())
DictValues(d) == [n \in DOMAIN d |-> d[n].value]

-----------------------------------------------------------------------------
(* SpecGM: the loop applied to the deals of one company.                   *)

N_Ann == <<"A","n","n">>

N_Bob == <<"B","o","b">>

E_Ann == <<"a","@","x">>

\* dealstage values: a key of each bucket, the "Closed Lost" key, a missing
\* value, and labels the table does not know (one holds both "Pre-Submittal"
\* and "Submittal", one is "submittal" in lower case, one holds "Issued").
DealStages ==
    { K_Intake, K_Submittal, K_ClosedLost, None,
      S_PreSubmittal \o <<" ","R","e","v","i","e","w">>,
      Lower(S_Submittal),
      <<"P","e","r","m","i","t"," ">> \o S_Issued }

\* sales_rep values: missing, empty, and two names.
DealReps == {None, <<>>, N_Ann, N_Bob}

\* name -> email maps build_sales_rep_map can return: Ann is a known sales
\* rep, Bob is not.
RepMaps == { (N_Ann :> E_Ann) }

\* The results arrays of the company search: ids are unique, here 1, 2, ...
DealLists ==
    UNION { { [i \in 1..n |-> [id |-> i, dealstage |-> f[i][1], sales_rep |-> f[i][2]]] :
                f \in [1..n -> DealStages \X DealReps] } : n \in 0..MaxDeals }

InitGM ==
    /\ deals \in DealLists
    /\ agent_email_map \in RepMaps
    /\ dashboard_data = EmptyDashboard
    /\ gm_i = 0
    /\ gm_pc = "loop"
    /\ IdleNorm
    /\ IdleServer

\* The body of the loop for the next deal.
GmLoop ==
    /\ gm_pc = "loop"
    /\ gm_i < Len(deals)
    /\ dashboard_data' = ProcessDeal(dashboard_data, deals[gm_i + 1], agent_email_map)
    /\ gm_i' = gm_i + 1
    /\ UNCHANGED <<deals, agent_email_map, gm_pc, norm_vars, srv_vars>>

\* After the loop: the agents dict becomes a list, and the function returns.
GmReturn ==
    /\ gm_pc = "loop"
    /\ gm_i = Len(deals)
    /\ dashboard_data' = [dashboard_data EXCEPT !.agents = DictValues(@)]
    /\ gm_pc' = "returned"
    /\ UNCHANGED <<deals, agent_email_map, gm_i, norm_vars, srv_vars>>

NextGM == GmLoop \/ GmReturn

SpecGM == InitGM /\ [][NextGM]_vars

-----------------------------------------------------------------------------
(* Claims about the GM dashboard aggregation.                              *)

\* The three bucketing rules, each stated on its own.
RulePre(st) ==
    Contains(S_FeeEstimate, st) \/ Contains(S_Intake, st) \/ Contains(S_PreSubmittal, st)

RulePost(st) == Contains(S_Submittal, st)

RuleCompleted(st) ==
    Contains(S_Approved, st) \/ Contains(S_Closed, st) \/ Contains(S_Issued, st)

\* The normalized stage of the i-th deal.
StageOf(i) == normalize_permit_stage(deals[i].dealstage)

\* 1 if b, else 0.
One(b) == IF b THEN 1 ELSE 0

\* C3: every deal increments at most one of pre_submittal, post_submittal,
\* completed: the first of the rules (Fee Estimate | Intake | Pre-Submittal),
\* (Submittal), (Approved | Closed | Issued) that its normalized stage matches,
\* case-sensitively; a stage holding both "Submittal" and "Pre-Submittal"
\* counts as pre_submittal and never as post_submittal.
C3_FirstMatchWins ==
    [][ gm_i' = gm_i + 1 =>
          LET st   == StageOf(gm_i + 1)
              old  == dashboard_data.summary
              new  == dashboard_data'.summary
              pre  == RulePre(st)
              post == ~pre /\ RulePost(st)
              comp == ~pre /\ ~post /\ RuleCompleted(st)
          IN  /\ new.pre_submittal  = old.pre_submittal  + One(pre)
              /\ new.post_submittal = old.post_submittal + One(post)
              /\ new.completed      = old.completed      + One(comp)
              /\ One(pre) + One(post) + One(comp) <= 1
              /\ (Contains(S_Submittal, st) /\ Contains(S_PreSubmittal, st))
                   => (new.pre_submittal = old.pre_submittal + 1
                       /\ new.post_submittal = old.post_submittal)
      ]_vars

\* A deal whose stage holds both "Pre-Submittal" and "Submittal" without being
\* a key of the table has been counted, as pre_submittal.
C3_Witness ==
    /\ gm_pc = "returned"
    /\ Len(deals) = 1
    /\ deals[1].dealstage = StageOf(1)
    /\ Contains(S_PreSubmittal, StageOf(1)) /\ Contains(S_Submittal, StageOf(1))
    /\ dashboard_data.summary =
         [pre_submittal |-> 1, post_submittal |-> 0, completed |-> 0]

\* The deals among the first n whose normalized stage matches some rule.
Bucketed(n) ==
    {i \in 1..n : RulePre(StageOf(i)) \/ RulePost(StageOf(i)) \/ RuleCompleted(StageOf(i))}

\* C4: the flat permit table holds exactly one row per deal of the company
\* search, in input order, bucketed or not; a deal that matches no rule adds
\* to no summary counter, so the three counters sum to the number of deals
\* that match some rule, which never exceeds the length of the table.
C4_TableAndSummary ==
    gm_pc \in {"loop", "returned"} =>
        LET sm == dashboard_data.summary
            pt == dashboard_data.permits
        IN  /\ gm_pc = "returned" => gm_i = Len(deals)
            /\ Len(pt) = gm_i
            /\ \A i \in 1..gm_i :
                 pt[i].deal_id = deals[i].id /\ pt[i].stage = StageOf(i)
            /\ sm.pre_submittal + sm.post_submittal + sm.completed
                 = Cardinality(Bucketed(gm_i))
            /\ sm.pre_submittal + sm.post_submittal + sm.completed <= Len(pt)

\* Two deals were returned, the first with no stage ("Unknown"): both are
\* in the table, one is in the summary.
C4_Witness ==
    /\ gm_pc = "returned"
    /\ Len(deals) = 2
    /\ deals[1].dealstage = None
    /\ Len(dashboard_data.permits) = 2
    /\ dashboard_data.permits[1].stage = S_Unknown
    /\ dashboard_data.summary.pre_submittal + dashboard_data.summary.post_submittal
         + dashboard_data.summary.completed = 1

\* The group key of a deal, stated on its own: its sales_rep, or "Unassigned"
\* when that is missing or empty.
GroupKey(i) ==
    IF deals[i].sales_rep = None \/ deals[i].sales_rep = <<>>
    THEN S_Unassigned ELSE deals[i].sales_rep

\* The index of the first deal of the group named name.
FirstDeal(name) ==
    CHOOSE i \in 1..Len(deals) :
        GroupKey(i) = name /\ \A j \in 1..(i - 1) : GroupKey(j) # name

\* The sum of the counts of the first n groups.
RECURSIVE CountSum(_, _)
CountSum(groups, n) == IF n = 0 THEN 0 ELSE groups[n].count + CountSum(groups, n - 1)

\* C5: each deal lies in exactly one agent group, the one named by its
\* sales_rep or "Unassigned"; each group's count is the length of its
\* deal_ids; the counts sum to the number of deals; the groups come in the
\* order in which their names first occur among the deals; a group's email is
\* the SalesRepMap entry of its name, or "Unassigned" when the map has none.
C5_AgentGroups ==
    gm_pc = "returned" =>
        LET ag == dashboard_data.agents
        IN  /\ \A i \in 1..Len(deals) :
                 /\ Cardinality({g \in 1..Len(ag) :
                        \E n \in 1..Len(ag[g].deal_ids) : ag[g].deal_ids[n] = deals[i].id}) = 1
                 /\ \E g \in 1..Len(ag) :
                        /\ ag[g].name = GroupKey(i)
                        /\ \E n \in 1..Len(ag[g].deal_ids) : ag[g].deal_ids[n] = deals[i].id
            /\ \A g \in 1..Len(ag) : ag[g].count = Len(ag[g].deal_ids)
            /\ CountSum(ag, Len(ag)) = Len(deals)
            /\ \A g \in 1..Len(ag) : \E i \in 1..Len(deals) : GroupKey(i) = ag[g].name
            /\ \A g, h \in 1..Len(ag) :
                 g < h => /\ ag[g].name # ag[h].name
                          /\ FirstDeal(ag[g].name) < FirstDeal(ag[h].name)
            /\ \A g \in 1..Len(ag) :
                 ag[g].email = IF ag[g].name \in DOMAIN agent_email_map
                               THEN agent_email_map[ag[g].name] ELSE S_Unassigned

\* Two deals, the first of a rep the map knows and the second with an empty
\* sales_rep, gave two groups in that order.
C5_Witness ==
    /\ gm_pc = "returned"
    /\ Len(deals) = 2
    /\ deals[1].sales_rep = N_Ann /\ deals[2].sales_rep = <<>>
    /\ N_Ann \in DOMAIN agent_email_map
    /\ Len(dashboard_data.agents) = 2
    /\ dashboard_data.agents[1].email = E_Ann
    /\ dashboard_data.agents[2].name = S_Unassigned
    /\ dashboard_data.agents[2].count = 1

-----------------------------------------------------------------------------
(* The HTTP service: the token gate.                                       *)

S_Bearer == <<"B","e","a","r","e","r"," ">>

\* A token is named by one letter: g is signed with JWT_SECRET and not
\* expired, e is signed with it but expired, f is signed with another key.
T_Good == <<"g">>

T_Expired == <<"e">>

T_Forged == <<"f">>

\* Authorization headers a client can send: none, another scheme, "Bearer "
\* with no token, with an expired, a forged and a good token.
Headers ==
    { None,
      <<"T","o","k","e","n"," ">> \o T_Good,
      S_Bearer,
      S_Bearer \o T_Expired,
      S_Bearer \o T_Forged,
      S_Bearer \o T_Good }

\* str.startswith
StartsWith(s, prefix) ==
    Len(s) >= Len(prefix) /\ SubSeq(s, 1, Len(prefix)) = prefix

\* authorization.split(" ")[1]: the text between the first space and the
\* next one (or the end).  Applied only to a string that holds a space.
SecondField(s) ==
    LET sp    == {i \in 1..Len(s) : s[i] = " "}
        a     == CHOOSE i \in sp : \A j \in sp : i <= j
        later == {i \in sp : i > a}
        b     == IF later = {} THEN Len(s) + 1
                 ELSE CHOOSE i \in later : \A j \in later : i <= j
    IN  SubSeq(s, a + 1, b - 1)

\* jwt.decode(token, JWT_SECRET, algorithms=[ALGORITHM]) returns a payload;
\* otherwise it raises JWTError (bad signature, expired, malformed).
JwtDecodes(token) == token = T_Good

\* A plausible slip: the header is looked at before the secret.
verify_jwt_HeaderFirst(authorization) ==
    IF ~Truthy(authorization) \/ ~StartsWith(authorization, S_Bearer)
    THEN [status |-> 401, detail |-> "Missing or invalid Authorization header"]
    ELSE IF ~Truthy(JWT_SECRET)
    THEN [status |-> 500, detail |-> "JWT secret not configured"]
    ELSE IF JwtDecodes(SecondField(authorization))
    THEN [status |-> 0, detail |-> ""]
    ELSE [status |-> 401, detail |-> "Invalid or expired token"]

\* A plausible slip: the token is taken from the header but never decoded.
verify_jwt_NoDecode(authorization) ==
    IF ~Truthy(JWT_SECRET)
    THEN [status |-> 500, detail |-> "JWT secret not configured"]
    ELSE IF ~Truthy(authorization) \/ ~StartsWith(authorization, S_Bearer)
    THEN [status |-> 401, detail |-> "Missing or invalid Authorization header"]
    ELSE [status |-> 0, detail |-> ""]

\* The dependency of every /api route: status 0 when it returns the payload,
\* else the status of the HTTPException it raises.
verify_jwt(authorization) ==
    IF ~Truthy(JWT_SECRET)
    THEN [status |-> 500, detail |-> "JWT secret not configured"]
    ELSE IF ~Truthy(authorization) \/ ~StartsWith(authorization, S_Bearer)
    THEN [status |-> 401, detail |-> "Missing or invalid Authorization header"]
    ELSE IF JwtDecodes(SecondField(authorization))
    THEN [status |-> 0, detail |-> ""]
    ELSE [status |-> 401, detail |-> "Invalid or expired token"]

-----------------------------------------------------------------------------
(* The HTTP service: endpoints and the CRM's answers.                      *)

\* The handlers of api_router, by function name.
ProtectedEndpoints ==
    { "get_deals_for_rep", "dashboard_summary", "fetch_deal", "get_deals_by_stage",
      "fetch_all_notes", "fetch_note_body", "distinct_permit_stages",
      "dashboard_summary_by_email", "verify_wix_contact_email",
      "sales_reps_for_pm", "gm_dashboard_summary" }

\* The handlers whose path parameter is an email to resolve.
EmailEndpoints ==
    { "dashboard_summary_by_email", "verify_wix_contact_email",
      "sales_reps_for_pm", "gm_dashboard_summary" }

\* The CRM client function a handler awaits first.
FirstAwait(e) ==
    CASE e \in {"get_deals_for_rep", "dashboard_summary", "get_deals_by_stage",
                "distinct_permit_stages"} -> "search_deals_by_sales_rep"
      [] e = "fetch_deal" -> "get_deal"
      [] e = "fetch_all_notes" -> "get_all_notes"
      [] e = "fetch_note_body" -> "get_note_body_by_id"
      [] e = "dashboard_summary_by_email" -> "get_sales_rep_name_by_email"
      [] OTHER -> "get_contact_by_email"

\* The request each awaited function sends.
Url(f) ==
    CASE f \in {"search_deals_by_sales_rep", "search_deals_by_company"}
              -> "POST /crm/v3/objects/deals/search"
      [] f = "get_deal" -> "GET /crm/v3/objects/deals/{deal_id}"
      [] f = "get_all_notes" -> "GET /crm/v3/objects/notes"
      [] f = "get_pinned_note_for_deal" -> "POST /crm/v3/objects/notes/search"
      [] f = "get_pinned_note_for_deal/detail" -> "GET /crm/v3/objects/notes/{note_id}"
      [] f = "get_note_body_by_id"
              -> "GET /crm/v3/objects/notes/{note_id}?properties=hs_note_body"
      [] f = "get_sales_rep_name_by_email" -> "GET /crm/v3/owners"
      [] OTHER -> "POST /crm/v3/objects/contacts/search"

E_Bob == <<"b","@","x">>

E_Eve == <<"e","@","x">>

S_Acme == <<"A","c","m","e">>

S_project_manager == <<"p","r","o","j","e","c","t"," ","m","a","n","a","g","e","r">>

S_ProjectManager == <<"P","r","o","j","e","c","t"," ","M","a","n","a","g","e","r">>

S_SalesRep == <<"S","a","l","e","s"," ","R","e","p">>

\* The email path parameters requests carry.
Emails == {E_Ann, E_Eve}

\* Owners of the CRM: [email, firstName, lastName].
OwnerLists ==
    { <<>>,
      << [email |-> E_Bob, firstName |-> N_Bob, lastName |-> <<>>],
         [email |-> <<" ">> \o WithUpper(E_Ann, {1}), firstName |-> N_Ann, lastName |-> N_Bob] >>,
      << [email |-> E_Eve, firstName |-> <<>>, lastName |-> <<>>] >> }

\* Contacts of the CRM: the properties get_contact_by_email asks for.
Contacts ==
    { [jobtitle |-> S_ProjectManager, firstname |-> N_Ann, lastname |-> <<>>, company |-> None],
      [jobtitle |-> <<"S","R"," ">> \o WithUpper(S_project_manager, 1..Len(S_project_manager)),
       firstname |-> N_Ann, lastname |-> N_Bob, company |-> S_Acme],
      [jobtitle |-> S_project_manager, firstname |-> None, lastname |-> N_Bob, company |-> <<>>],
      [jobtitle |-> S_SalesRep, firstname |-> N_Bob, lastname |-> <<>>, company |-> S_Acme],
      [jobtitle |-> None, firstname |-> N_Bob, lastname |-> N_Ann, company |-> None] }

\* The results array of a contact search with limit 1.
ContactResults == {<<>>} \cup {<<c>> : c \in Contacts}

R_Ann == [email |-> E_Ann, firstname |-> N_Ann, lastname |-> <<>>]

R_Bob == [email |-> E_Bob, firstname |-> <<>>, lastname |-> N_Bob]

\* The results array of a search for sales-rep contacts.
RepResults == { <<>>, <<R_Ann>>, <<R_Ann, R_Bob>> }

S_Created == <<"2","0","2","4","-","0","1","-","0","2","T","0","3",":","0","4","Z">>

\* Deals of the CRM, with the properties the searches ask for.
Deal(n, st, rep) ==
    [ id |-> n, dealstage |-> st, sales_rep |-> rep, dealname |-> <<"D", "e", "a", "l">>,
      hs_lastmodifieddate |-> S_Created, description |-> <<"d">>, createdate |-> S_Created ]

\* A full page: as many deals as the CRM returns at most for one search.
FullPage == [i \in 1..MaxPage |-> Deal(i, K_Intake, N_Ann)]

\* The JSON a deal search answers with: results and whether a next page exists.
DealSearchResponses ==
    { [results |-> r, paging |-> p] :
        r \in { <<>>,
                << Deal(1, K_Intake, N_Ann), Deal(2, K_Submittal, None),
                   Deal(3, K_Closed, N_Bob) >>,
                FullPage },
        p \in BOOLEAN }

\* The body of a note, which may be missing.
NoteBodies == {None, <<"o","k">>}

-----------------------------------------------------------------------------
(* The HTTP service: what the handlers compute.                            *)

\* The bucket of a normalized stage, first matching rule.
BucketOf(st) ==
    IF \E x \in {S_FeeEstimate, S_Intake, S_PreSubmittal} : Contains(x, st)
    THEN "pre_submittal"
    ELSE IF Contains(S_Submittal, st) THEN "post_submittal"
    ELSE IF \E x \in {S_Approved, S_Closed, S_Issued} : Contains(x, st)
    THEN "completed"
    ELSE "none"

\* The per-rep dashboard: summary counts, alert lists for the first two
\* buckets (id, project name, last-modified date, description) and the flat
\* permit table.
format_dashboard_response(ds) ==
    LET In(b) == SelectSeq(ds, LAMBDA d : BucketOf(normalize_permit_stage(d.dealstage)) = b)
        Alert(d) == [ id |-> d.id, name |-> d.dealname,
                      date |-> d.hs_lastmodifieddate, description |-> d.description ]
        Alerts(b) == [i \in 1..Len(In(b)) |-> Alert(In(b)[i])]
    IN  [ summary |-> [ pre_submittal  |-> Len(In("pre_submittal")),
                        post_submittal |-> Len(In("post_submittal")),
                        completed      |-> Len(In("completed")) ],
          alerts  |-> [ pre_submittal  |-> Alerts("pre_submittal"),
                        post_submittal |-> Alerts("post_submittal") ],
          permits |-> [ i \in 1..Len(ds) |->
                          [ deal_id |-> ds[i].id, deal_name |-> ds[i].dealname,
                            stage |-> normalize_permit_stage(ds[i].dealstage) ] ] ]

\* d.get("permit_stage") or d.get("properties", {}).get("permit_stage"): a
\* search result has no such key, and the searches do not ask for the property.
PermitStageOf(d) == None

\* get_deals_by_stage: the deals whose permit_stage equals the path
\* parameter, ignoring case.
FilterByStage(ds, permit_stage) ==
    SelectSeq(ds, LAMBDA d :
        Lower(IF Truthy(PermitStageOf(d)) THEN PermitStageOf(d) ELSE <<>>)
            = Lower(permit_stage))

\* get_distinct_permit_stages: sorted(stages).  All stages are equal here, so
\* the sorted list has at most one entry.
DistinctStages(ds) ==
    LET stages == {normalize_permit_stage(PermitStageOf(ds[i])) : i \in 1..Len(ds)}
    IN  IF stages = {} THEN <<>> ELSE <<CHOOSE x \in stages : TRUE>>

\* f"{first} {last}".strip(); None is formatted as the text "None".
FullName(first, last) ==
    Strip((IF first = None THEN <<"N","o","n","e">> ELSE first) \o <<" ">> \o
          (IF last = None THEN <<"N","o","n","e">> ELSE last))

\* The scan of get_sales_rep_name_by_email: the name of the first owner
\* whose email equals the requested one, trimmed and lower-cased.
get_sales_rep_name_by_email(results, email) ==
    LET hits == {i \in 1..Len(results) :
                    Lower(Strip(results[i].email)) = Lower(Strip(email))}
    IN  IF hits = {} THEN None
        ELSE LET i == CHOOSE i \in hits : \A j \in hits : i <= j
             IN  FullName(results[i].firstName, results[i].lastName)

\* get_gm_assigned_company on the contact found (<<>>: none found).
get_gm_assigned_company(contact) ==
    IF contact = <<>> THEN None
    ELSE IF ~Truthy(contact[1].company) THEN None
    ELSE contact[1].company

\* A plausible slip: the `if not contact` guard is missing, so None.get raises.
PmOutcome_NoContactGuard(contact) ==
    IF contact = <<>> THEN "raise"
    ELSE IF ~Contains(S_project_manager,
                      Lower(IF Truthy(contact[1].jobtitle) THEN contact[1].jobtitle ELSE <<>>))
    THEN "not_pm"
    ELSE IF contact[1].firstname = None \/ contact[1].lastname = None THEN "raise"
    ELSE "search"

\* A plausible slip: the job title is not lower-cased before the test.
PmOutcome_CaseSensitive(contact) ==
    IF contact = <<>> THEN "no_contact"
    ELSE IF ~Contains(S_project_manager,
                      IF Truthy(contact[1].jobtitle) THEN contact[1].jobtitle ELSE <<>>)
    THEN "not_pm"
    ELSE IF contact[1].firstname = None \/ contact[1].lastname = None THEN "raise"
    ELSE "search"

\* get_sales_reps_under_pm after the contact lookup: return [] when there
\* is no contact or its job title lacks "project manager"; None.strip()
\* raises AttributeError; otherwise search for the reps.
PmOutcome(contact) ==
    IF contact = <<>> THEN "no_contact"
    ELSE IF ~Contains(S_project_manager,
                      Lower(IF Truthy(contact[1].jobtitle) THEN contact[1].jobtitle ELSE <<>>))
    THEN "not_pm"
    ELSE IF contact[1].firstname = None \/ contact[1].lastname = None THEN "raise"
    ELSE "search"

\* format_deal_for_pm_view: createdate is cut to its first ten characters.
format_deal_for_pm_view(d) ==
    [ id |-> d.id,
      properties |->
        [ createdate |-> SubSeq(d.createdate, 1, IF Len(d.createdate) < 10
                                                 THEN Len(d.createdate) ELSE 10),
          dealname |-> d.dealname, dealstage |-> d.dealstage ] ]

\* The rep_map loop of build_sales_rep_map: a later rep of the same name wins.
RepMapOf(reps) ==
    LET NameOf(i) == FullName(reps[i].firstname, reps[i].lastname)
    IN  [ n \in {NameOf(i) : i \in 1..Len(reps)} |->
            LET last == CHOOSE i \in 1..Len(reps) :
                            NameOf(i) = n /\ \A j \in 1..Len(reps) : NameOf(j) = n => j <= i
            IN  reps[last].email ]

\* `if SALES_REP_CACHE:` -- None and the empty dict are both falsy.
CacheTruthy(cache) == ~cache.none /\ DOMAIN cache.map # {}

\* The loop of get_gm_dashboard_data over the deals from the i-th on.
RECURSIVE GmLoopFrom(_, _, _, _)
GmLoopFrom(dd, ds, i, email_map) ==
    IF i > Len(ds) THEN dd
    ELSE GmLoopFrom(ProcessDeal(dd, ds[i], email_map), ds, i + 1, email_map)

\* get_gm_dashboard_data once the deals and the map are there.
GmDashboard(ds, email_map) ==
    LET dd == GmLoopFrom(EmptyDashboard, ds, 1, email_map)
    IN  [dd EXCEPT !.agents = DictValues(@)]

-----------------------------------------------------------------------------
(* The HTTP service: responses.                                            *)

ZeroSummary == [pre_submittal |-> 0, post_submittal |-> 0, completed |-> 0]

\* dashboard_summary_by_email when the email resolves to no sales rep.
UserNotLinked ==
    [ error |-> "User not linked", summary |-> ZeroSummary,
      alerts |-> [pre_submittal |-> <<>>, post_submittal |-> <<>>], permits |-> <<>> ]

\* gm_dashboard_summary when the email resolves to no company.
ConfigurationError ==
    [ error |-> "Configuration Error", summary |-> ZeroSummary,
      agents |-> <<>>, permits |-> <<>> ]

\* A handler that returns None answers with the JSON value null.
JsonNull == [null |-> TRUE]

\* An exception no handler catches.
InternalServerError == [detail |-> "Internal Server Error"]

\* sales_reps_for_pm
PmBody(pm_email, reps) ==
    [project_manager |-> pm_email, sales_reps |-> reps, count |-> Len(reps)]

\* fetch_deal: pinned_note.get("body") if pinned_note else "No pinned updates."
\* (note: <<>> when get_pinned_note_for_deal returned None, else <<body>>).
DealDetail(note) ==
    [updates |-> [pinned_note |-> IF note = <<>>
                                  THEN <<"N","o"," ","p","i","n","n","e","d">>
                                  ELSE note[1]]]

\* A plausible slip: the dashboard handlers return the deals as found, like
\* get_deals_for_rep, without formatting them.
DealsBody_Unformatted(e, ds) ==
    CASE e = "get_deals_by_stage" -> [list |-> FilterByStage(ds, S_Intake)]
      [] e = "distinct_permit_stages" -> [list |-> DistinctStages(ds)]
      [] OTHER -> [list |-> ds]

\* What a handler makes of the deals of search_deals_by_sales_rep.
DealsBody(e, ds) ==
    CASE e = "get_deals_for_rep" -> [list |-> ds]
      [] e = "get_deals_by_stage" -> [list |-> FilterByStage(ds, S_Intake)]
      [] e = "distinct_permit_stages" -> [list |-> DistinctStages(ds)]
      [] OTHER -> format_dashboard_response(ds)

-----------------------------------------------------------------------------
(* The HTTP service: the tasks.  A step runs a task from the answer of the *)
(* CRM call it awaits to its next CRM call, or to its response.            *)

\* A call is logged when it is sent and settled when its answer arrives.
Issue(c, f) == Append(c, [fn |-> f, req |-> Url(f), status |-> "pending"])

Settle(c, st) == [c EXCEPT ![Len(c)].status = st]

\* What no step of a task changes.
Frame == UNCHANGED <<ep, hdr, arg, JWT_SECRET, norm_vars, gm_vars>>

\* Task t sends the request of f and awaits its answer.
Goto(t, f, c, l) ==
    /\ pc' = [pc EXCEPT ![t] = f]
    /\ calls' = [calls EXCEPT ![t] = Issue(c, f)]
    /\ loc' = [loc EXCEPT ![t] = l]
    /\ UNCHANGED resp

\* Task t answers its request.
Return(t, c, l, status, body) ==
    /\ pc' = [pc EXCEPT ![t] = "done"]
    /\ calls' = [calls EXCEPT ![t] = c]
    /\ loc' = [loc EXCEPT ![t] = l]
    /\ resp' = [resp EXCEPT ![t] = [status |-> status, body |-> body]]

\* A plausible slip: the HTTPStatusError is caught and what was gathered so
\* far is returned.
HttpError_PartialResult(t) ==
    Return(t, Settle(calls[t], "error"), loc[t], 200, [list |-> loc[t].deals])

\* response.raise_for_status() on a non-success answer: nothing catches the
\* HTTPStatusError, the request ends with 500.
HttpError(t) ==
    Return(t, Settle(calls[t], "error"), loc[t], 500, InternalServerError)

\* The answer arrived with a success status.
Ok(t) == Settle(calls[t], "ok")

InitServer ==
    /\ JWT_SECRET \in {None, <<"k">>}
    /\ SALES_REP_CACHE = NoCache
    /\ pc = [t \in Tasks |-> "idle"]
    /\ ep = [t \in Tasks |-> "none"]
    /\ hdr = [t \in Tasks |-> None]
    /\ arg = [t \in Tasks |-> None]
    /\ calls = [t \in Tasks |-> <<>>]
    /\ loc = [t \in Tasks |-> NoLocals]
    /\ resp = [t \in Tasks |-> NoResponse]
    /\ IdleNorm
    /\ IdleGM

\* GET /: no dependency, no CRM call.
HealthCheck(t) ==
    /\ pc[t] \in {"idle", "done"}
    /\ \E h \in Headers :
         /\ ep' = [ep EXCEPT ![t] = "root"]
         /\ hdr' = [hdr EXCEPT ![t] = h]
         /\ arg' = [arg EXCEPT ![t] = None]
         /\ Return(t, <<>>, NoLocals, 200, [status |-> "HubSpot middleware running"])
    /\ UNCHANGED <<JWT_SECRET, SALES_REP_CACHE, norm_vars, gm_vars>>

\* A request to a route of api_router: verify_jwt, then the handler up to
\* its first CRM call.
Request(t) ==
    /\ pc[t] \in {"idle", "done"}
    /\ \E e \in ProtectedEndpoints, h \in Headers, a \in Emails :
         /\ ep' = [ep EXCEPT ![t] = e]
         /\ hdr' = [hdr EXCEPT ![t] = h]
         /\ arg' = [arg EXCEPT ![t] = IF e \in EmailEndpoints THEN a ELSE None]
         /\ LET v == verify_jwt(h)
            IN  IF v.status # 0
                THEN Return(t, <<>>, NoLocals, v.status, [detail |-> v.detail])
                ELSE Goto(t, FirstAwait(e), <<>>, NoLocals)
    /\ UNCHANGED <<JWT_SECRET, SALES_REP_CACHE, norm_vars, gm_vars>>

\* A plausible slip: a pagination loop, here one more search when the page is
\* full and the response names a next page; the pages are concatenated.
DealsSearchResp_FollowsPaging(t) ==
    /\ pc[t] = "search_deals_by_sales_rep"
    /\ ep[t] # "sales_reps_for_pm"
    /\ \/ HttpError(t)
       \/ \E data \in DealSearchResponses :
            LET got == loc[t].deals \o data.results
            IN  IF data.paging /\ Len(data.results) = MaxPage /\ loc[t].deals = <<>>
                THEN Goto(t, "search_deals_by_sales_rep", Ok(t), [loc[t] EXCEPT !.deals = got])
                ELSE Return(t, Ok(t), [loc[t] EXCEPT !.deals = got], 200,
                            DealsBody(ep[t], got))
    /\ Frame /\ UNCHANGED SALES_REP_CACHE

\* search_deals_by_sales_rep answers a handler other than the PM view.
DealsSearchResp(t) ==
    /\ pc[t] = "search_deals_by_sales_rep"
    /\ ep[t] # "sales_reps_for_pm"
    /\ \/ HttpError(t)
       \/ \E data \in DealSearchResponses :
            Return(t, Ok(t), [loc[t] EXCEPT !.deals = data.results], 200,
                   DealsBody(ep[t], data.results))
    /\ Frame /\ UNCHANGED SALES_REP_CACHE

\* get_sales_rep_name_by_email answers dashboard_summary_by_email.
OwnersResp(t) ==
    /\ pc[t] = "get_sales_rep_name_by_email"
    /\ \/ HttpError(t)
       \/ \E results \in OwnerLists :
            LET name == get_sales_rep_name_by_email(results, arg[t])
                l    == [loc[t] EXCEPT !.owners = results, !.name = name]
            IN  IF ~Truthy(name)
                THEN Return(t, Ok(t), l, 200, UserNotLinked)
                ELSE Goto(t, "search_deals_by_sales_rep", Ok(t), l)
    /\ Frame /\ UNCHANGED SALES_REP_CACHE

\* get_contact_by_email answers verify_wix_contact_email.
VerifyContactResp(t) ==
    /\ pc[t] = "get_contact_by_email"
    /\ ep[t] = "verify_wix_contact_email"
    /\ \/ HttpError(t)
       \/ \E results \in ContactResults :
            LET l == [loc[t] EXCEPT !.contact = results]
            IN  IF results = <<>>
                THEN Return(t, Ok(t), l, 200, JsonNull)
                ELSE Goto(t, "search_deals_by_sales_rep", Ok(t), l)
    /\ Frame /\ UNCHANGED SALES_REP_CACHE

\* get_contact_by_email answers get_sales_reps_under_pm.
PmContactResp(t) ==
    /\ pc[t] = "get_contact_by_email"
    /\ ep[t] = "sales_reps_for_pm"
    /\ \/ HttpError(t)
       \/ \E results \in ContactResults :
            LET l == [loc[t] EXCEPT !.contact = results]
                o == PmOutcome(results)
            IN  CASE o \in {"no_contact", "not_pm"}
                       -> Return(t, Ok(t), l, 200, PmBody(arg[t], <<>>))
                  [] o = "raise"
                       -> Return(t, Ok(t), l, 500, InternalServerError)
                  [] OTHER -> Goto(t, "get_sales_reps_under_pm", Ok(t), l)
    /\ Frame /\ UNCHANGED SALES_REP_CACHE

\* The rep search of get_sales_reps_under_pm answers.
PmRepsResp(t) ==
    /\ pc[t] = "get_sales_reps_under_pm"
    /\ \/ HttpError(t)
       \/ \E reps \in RepResults :
            LET l == [loc[t] EXCEPT !.reps = reps, !.deals = <<>>]
            IN  IF reps = <<>>
                THEN Return(t, Ok(t), l, 200, PmBody(arg[t], <<>>))
                ELSE Goto(t, "search_deals_by_sales_rep", Ok(t), l)
    /\ Frame /\ UNCHANGED SALES_REP_CACHE

\* search_deals_by_sales_rep answers for the next rep of the PM view.
PmRepDealsResp(t) ==
    /\ pc[t] = "search_deals_by_sales_rep"
    /\ ep[t] = "sales_reps_for_pm"
    /\ \/ HttpError(t)
       \/ \E data \in DealSearchResponses :
            LET raw  == data.results
                got  == Append(loc[t].deals,
                               [i \in 1..Len(raw) |-> format_deal_for_pm_view(raw[i])])
                l    == [loc[t] EXCEPT !.deals = got]
                reps == [i \in 1..Len(l.reps) |->
                           [properties |-> l.reps[i], deals |-> got[i]]]
            IN  IF Len(got) = Len(l.reps)
                THEN Return(t, Ok(t), l, 200, PmBody(arg[t], reps))
                ELSE Goto(t, "search_deals_by_sales_rep", Ok(t), l)
    /\ Frame /\ UNCHANGED SALES_REP_CACHE

\* get_contact_by_email answers get_gm_assigned_company.
GmContactResp(t) ==
    /\ pc[t] = "get_contact_by_email"
    /\ ep[t] = "gm_dashboard_summary"
    /\ \/ HttpError(t)
       \/ \E results \in ContactResults :
            LET l == [loc[t] EXCEPT !.contact = results]
            IN  IF ~Truthy(get_gm_assigned_company(results))
                THEN Return(t, Ok(t), l, 200, ConfigurationError)
                ELSE Goto(t, "search_deals_by_company", Ok(t), l)
    /\ Frame /\ UNCHANGED SALES_REP_CACHE

\* search_deals_by_company answers; build_sales_rep_map runs up to its
\* request, or returns the cache.
GmDealsResp(t) ==
    /\ pc[t] = "search_deals_by_company"
    /\ \/ HttpError(t)
       \/ \E data \in DealSearchResponses :
            LET l == [loc[t] EXCEPT !.deals = data.results]
            IN  IF CacheTruthy(SALES_REP_CACHE)
                THEN Return(t, Ok(t), l, 200, GmDashboard(l.deals, SALES_REP_CACHE.map))
                ELSE Goto(t, "build_sales_rep_map", Ok(t), l)
    /\ Frame /\ UNCHANGED SALES_REP_CACHE

\* A plausible slip: the cache is set to an empty map before the answer is
\* looked at, so a failed search leaves it populated and empty.
GmRepMapResp_StoresEmptyOnError(t) ==
    /\ pc[t] = "build_sales_rep_map"
    /\ \/ HttpError(t) /\ SALES_REP_CACHE' = [none |-> FALSE, map |-> <<>>]
       \/ \E reps \in RepResults :
            LET rep_map == RepMapOf(reps)
            IN  /\ SALES_REP_CACHE' = [none |-> FALSE, map |-> rep_map]
                /\ Return(t, Ok(t), [loc[t] EXCEPT !.reps = reps], 200,
                          GmDashboard(loc[t].deals, rep_map))
    /\ Frame

\* A plausible slip: the map is stored only while the cache is unpopulated,
\* so the first writer wins.
GmRepMapResp_FirstWriterWins(t) ==
    /\ pc[t] = "build_sales_rep_map"
    /\ \/ HttpError(t) /\ UNCHANGED SALES_REP_CACHE
       \/ \E reps \in RepResults :
            LET rep_map == RepMapOf(reps)
            IN  /\ SALES_REP_CACHE' = IF CacheTruthy(SALES_REP_CACHE)
                                      THEN SALES_REP_CACHE
                                      ELSE [none |-> FALSE, map |-> rep_map]
                /\ Return(t, Ok(t), [loc[t] EXCEPT !.reps = reps], 200,
                          GmDashboard(loc[t].deals, rep_map))
    /\ Frame

\* The contact search of build_sales_rep_map answers: the map is built,
\* stored in SALES_REP_CACHE and used for the dashboard.
GmRepMapResp(t) ==
    /\ pc[t] = "build_sales_rep_map"
    /\ \/ HttpError(t) /\ UNCHANGED SALES_REP_CACHE
       \/ \E reps \in RepResults :
            LET rep_map == RepMapOf(reps)
            IN  /\ SALES_REP_CACHE' = [none |-> FALSE, map |-> rep_map]
                /\ Return(t, Ok(t), [loc[t] EXCEPT !.reps = reps], 200,
                          GmDashboard(loc[t].deals, rep_map))
    /\ Frame

\* get_deal answers fetch_deal, which then asks for the pinned note.
DealGetResp(t) ==
    /\ pc[t] = "get_deal"
    /\ \/ HttpError(t)
       \/ Goto(t, "get_pinned_note_for_deal", Ok(t), loc[t])
    /\ Frame /\ UNCHANGED SALES_REP_CACHE

\* A plausible slip: the `if not notes` guard is missing, so notes[0] raises
\* IndexError when the search finds nothing.
NoteSearchResp_NoEmptyGuard(t) ==
    /\ pc[t] = "get_pinned_note_for_deal"
    /\ \/ HttpError(t)
       \/ \E notes \in {<<>>, <<[id |-> 7]>>} :
            IF notes = <<>>
            THEN Return(t, Ok(t), loc[t], 500, InternalServerError)
            ELSE Goto(t, "get_pinned_note_for_deal/detail", Ok(t),
                      [loc[t] EXCEPT !.note_id = notes[1].id])
    /\ Frame /\ UNCHANGED SALES_REP_CACHE

\* The note search of get_pinned_note_for_deal answers.
NoteSearchResp(t) ==
    /\ pc[t] = "get_pinned_note_for_deal"
    /\ \/ HttpError(t)
       \/ \E notes \in {<<>>, <<[id |-> 7]>>} :
            IF notes = <<>>
            THEN Return(t, Ok(t), loc[t], 200, DealDetail(<<>>))
            ELSE Goto(t, "get_pinned_note_for_deal/detail", Ok(t),
                      [loc[t] EXCEPT !.note_id = notes[1].id])
    /\ Frame /\ UNCHANGED SALES_REP_CACHE

\* The GET of the note found answers; get_note_body_by_id is called next.
NoteDetailResp(t) ==
    /\ pc[t] = "get_pinned_note_for_deal/detail"
    /\ \/ HttpError(t)
       \/ Goto(t, "get_note_body_by_id", Ok(t), loc[t])
    /\ Frame /\ UNCHANGED SALES_REP_CACHE

\* get_note_body_by_id answers fetch_note_body or get_pinned_note_for_deal.
NoteBodyResp(t) ==
    /\ pc[t] = "get_note_body_by_id"
    /\ \/ HttpError(t)
       \/ \E note_body \in NoteBodies :
            IF ep[t] = "fetch_note_body"
            THEN Return(t, Ok(t), loc[t], 200, [text |-> note_body])
            ELSE Return(t, Ok(t), loc[t], 200, DealDetail(<<note_body>>))
    /\ Frame /\ UNCHANGED SALES_REP_CACHE

\* get_all_notes answers fetch_all_notes with the CRM's envelope.
NotesListResp(t) ==
    /\ pc[t] = "get_all_notes"
    /\ \/ HttpError(t)
       \/ \E paging \in BOOLEAN :
            Return(t, Ok(t), loc[t], 200, [results |-> <<>>, paging |-> paging])
    /\ Frame /\ UNCHANGED SALES_REP_CACHE

\* The task that serves the requests of Spec, one after the other.
Serial == {1}

Next ==
    \E t \in Serial :
        \/ HealthCheck(t)
        \/ Request(t)
        \/ DealsSearchResp(t)
        \/ OwnersResp(t)
        \/ VerifyContactResp(t)
        \/ PmContactResp(t)
        \/ PmRepsResp(t)
        \/ PmRepDealsResp(t)
        \/ GmContactResp(t)
        \/ GmDealsResp(t)
        \/ GmRepMapResp(t)
        \/ DealGetResp(t)
        \/ NoteSearchResp(t)
        \/ NoteDetailResp(t)
        \/ NoteBodyResp(t)
        \/ NotesListResp(t)

Spec == InitServer /\ [][Next]_vars

-----------------------------------------------------------------------------
(* Two GM dashboard requests served concurrently: the event loop runs one  *)
(* task at a time and switches tasks only where a task awaits the CRM.     *)

\* A first request of task t to /api/gm-dashboard/{email}: verify_jwt, then
\* gm_dashboard_summary up to the contact lookup of get_gm_assigned_company.
GmRequest(t) ==
    /\ pc[t] = "idle"
    /\ \E h \in Headers, a \in Emails :
         /\ ep' = [ep EXCEPT ![t] = "gm_dashboard_summary"]
         /\ hdr' = [hdr EXCEPT ![t] = h]
         /\ arg' = [arg EXCEPT ![t] = a]
         /\ LET v == verify_jwt(h)
            IN  IF v.status # 0
                THEN Return(t, <<>>, NoLocals, v.status, [detail |-> v.detail])
                ELSE Goto(t, "get_contact_by_email", <<>>, NoLocals)
    /\ UNCHANGED <<JWT_SECRET, SALES_REP_CACHE, norm_vars, gm_vars>>

NextRace ==
    \E t \in Tasks :
        \/ GmRequest(t)
        \/ GmContactResp(t)
        \/ GmDealsResp(t)
        \/ GmRepMapResp(t)

SpecRace == InitServer /\ [][NextRace]_vars

-----------------------------------------------------------------------------
(* Claims about the HTTP service.                                          *)

\* C6: once build_sales_rep_map has completed successfully, whatever the CRM
\* returned (zero sales reps included), every later call returns the cached
\* map and sends no request: no task starts to await the contact search of
\* build_sales_rep_map, and the cache is never replaced.
C6_MemoizedOncePopulated ==
    [][ ~SALES_REP_CACHE.none =>
          /\ SALES_REP_CACHE' = SALES_REP_CACHE
          /\ \A t \in Tasks :
               pc[t] # "build_sales_rep_map" => pc'[t] # "build_sales_rep_map"
      ]_vars

\* The header is missing, does not start with "Bearer ", or carries a token
\* that fails validation.
BadHeader(h) ==
    \/ h = None
    \/ ~StartsWith(h, S_Bearer)
    \/ SecondField(h) \in {<<>>, T_Expired, T_Forged}

\* C7 as stated: a request to a route of /api with such a header is
\* rejected with 401 and makes no CRM call.
C7_Rejected401 ==
    \A t \in Tasks :
        (pc[t] = "done" /\ ep[t] \in ProtectedEndpoints /\ BadHeader(hdr[t]))
            => (resp[t].status = 401 /\ calls[t] = <<>>)

\* C7, amended: a request to a route of /api whose Authorization header is
\* missing, does not start with "Bearer " or carries a token that fails
\* validation is rejected before any CRM call is made, with 401 when a
\* signing secret is configured and with 500 when none is; only the health
\* check is served without a token.
C7_TokenGate ==
    \A t \in Tasks :
        /\ (ep[t] \in ProtectedEndpoints /\ BadHeader(hdr[t]))
             => /\ pc[t] = "done"
                /\ calls[t] = <<>>
                /\ resp[t].status = IF JWT_SECRET = None THEN 500 ELSE 401
        /\ (pc[t] = "done" /\ ep[t] = "root")
             => (resp[t].status = 200 /\ calls[t] = <<>>)
        /\ (pc[t] = "done" /\ resp[t].status = 200 /\ BadHeader(hdr[t]))
             => ep[t] = "root"

\* With a secret configured, a request with an expired token was rejected
\* with 401 before any CRM call.
C7_Witness ==
    \E t \in Tasks :
        /\ JWT_SECRET # None
        /\ pc[t] = "done"
        /\ ep[t] = "gm_dashboard_summary"
        /\ hdr[t] = S_Bearer \o T_Expired
        /\ resp[t].status = 401
        /\ calls[t] = <<>>

\* C8: with no signing secret configured, every request to a protected
\* endpoint fails with 500, whatever its Authorization header, and no CRM
\* call is made.
C8_NoSecret500 ==
    JWT_SECRET = None =>
        \A t \in Tasks :
            ep[t] \in ProtectedEndpoints
                => (pc[t] = "done" /\ resp[t].status = 500 /\ calls[t] = <<>>)

\* Without a secret, requests with no header and with a good token both
\* ended with 500.
C8_Witness ==
    /\ JWT_SECRET = None
    /\ \E t \in Tasks :
         /\ pc[t] = "done"
         /\ ep[t] \in ProtectedEndpoints
         /\ hdr[t] = S_Bearer \o T_Good
         /\ resp[t].status = 500
         /\ calls[t] = <<>>

\* The lookup of task t was answered, and the CRM had no owner or contact
\* for the email.
NoMatch(t) ==
    /\ Len(calls[t]) = 1
    /\ calls[t][1].status = "ok"
    /\ IF ep[t] = "dashboard_summary_by_email"
       THEN \A i \in 1..Len(loc[t].owners) :
                Lower(Strip(loc[t].owners[i].email)) # Lower(Strip(arg[t]))
       ELSE loc[t].contact = <<>>

\* The empty / placeholder response of each endpoint that resolves an email.
EmptyResponse(t) ==
    CASE ep[t] = "dashboard_summary_by_email" -> UserNotLinked
      [] ep[t] = "verify_wix_contact_email" -> JsonNull
      [] ep[t] = "sales_reps_for_pm"
           -> [project_manager |-> arg[t], sales_reps |-> <<>>, count |-> 0]
      [] ep[t] = "gm_dashboard_summary" -> ConfigurationError

\* C9: for each endpoint that resolves an email (dashboard by email, verify
\* external contact, PM sales-reps list, GM dashboard), when the CRM answers
\* the lookup with no matching owner or contact, the endpoint answers 200
\* with its empty / placeholder response (JSON null for the verify
\* endpoint) and no unhandled exception.
C9_NoMatchPlaceholder ==
    \A t \in Tasks :
        (pc[t] # "idle" /\ ep[t] \in EmailEndpoints /\ NoMatch(t))
            => /\ pc[t] = "done"
               /\ resp[t].status = 200
               /\ resp[t].body = EmptyResponse(t)

\* The owners list held owners, none with the requested email, and the
\* dashboard by email answered with its placeholder.
C9_Witness ==
    \E t \in Tasks :
        /\ pc[t] = "done"
        /\ ep[t] = "dashboard_summary_by_email"
        /\ NoMatch(t)
        /\ loc[t].owners # <<>>
        /\ resp[t].status = 200
        /\ resp[t].body = UserNotLinked

\* The job title holds "project manager" in whatever letter case.
IsProjectManagerTitle(title) ==
    /\ title # None
    /\ \E i \in 0..(Len(title) - Len(S_project_manager)) :
         \A n \in 1..Len(S_project_manager) :
             SameLetter(title[i + n], S_project_manager[n])

\* C10: get_sales_reps_under_pm goes on to the rep search only if the
\* contact's job title holds "project manager" in any letter case, and
\* "Project Manager" and its case variants do pass; for any other contact
\* ("Sales Rep", or no job title) it returns an empty list without error and
\* makes no CRM call after the contact lookup.
C10_PmAuthorization ==
    \A t \in Tasks :
        (ep[t] = "sales_reps_for_pm" /\ Len(calls[t]) >= 1
           /\ calls[t][1].status = "ok")
        => LET c == loc[t].contact
           IN  /\ Len(calls[t]) >= 2
                    => (c # <<>> /\ IsProjectManagerTitle(c[1].jobtitle)
                        /\ calls[t][2].fn = "get_sales_reps_under_pm")
               /\ (c # <<>> /\ ~IsProjectManagerTitle(c[1].jobtitle))
                    => /\ pc[t] = "done"
                       /\ Len(calls[t]) = 1
                       /\ resp[t].status = 200
                       /\ resp[t].body = PmBody(arg[t], <<>>)
               /\ (c # <<>> /\ IsProjectManagerTitle(c[1].jobtitle)
                     /\ c[1].firstname # None /\ c[1].lastname # None)
                    => Len(calls[t]) >= 2

\* A contact whose job title is "Sales Rep" asked for the PM view and got an
\* empty list after the one contact lookup.
C10_Witness ==
    \E t \in Tasks :
        /\ pc[t] = "done"
        /\ ep[t] = "sales_reps_for_pm"
        /\ loc[t].contact # <<>>
        /\ loc[t].contact[1].jobtitle = S_SalesRep
        /\ Len(calls[t]) = 1
        /\ resp[t].status = 200
        /\ resp[t].body.sales_reps = <<>>
        /\ resp[t].body.count = 0

\* C11: in every flow the first CRM call that answers with a non-success
\* status ends the request with an error: the failed call is the last call of
\* the request (no retry, no later call), every call before it succeeded, and
\* the response is the 500 of the unhandled exception, with no partial result.
C11_FailFast ==
    \A t \in Tasks :
        \A i \in 1..Len(calls[t]) :
            /\ calls[t][i].status = "error"
                 => /\ i = Len(calls[t])
                    /\ pc[t] = "done"
                    /\ resp[t].status = 500
                    /\ resp[t].body = InternalServerError
            /\ i < Len(calls[t]) => calls[t][i].status = "ok"
            /\ calls[t][i].status = "pending" => (i = Len(calls[t]) /\ pc[t] # "done")

\* In the PM view the deals of the first rep were fetched, the deal search of
\* the second rep failed, and the request ended with 500.
C11_Witness ==
    \E t \in Tasks :
        /\ pc[t] = "done"
        /\ ep[t] = "sales_reps_for_pm"
        /\ Len(loc[t].reps) = 2
        /\ Len(loc[t].deals) = 1
        /\ loc[t].deals[1] # <<>>
        /\ Len(calls[t]) = 4
        /\ calls[t][4].fn = "search_deals_by_sales_rep"
        /\ calls[t][4].status = "error"
        /\ resp[t].status = 500
        /\ resp[t].body = InternalServerError

\* Three deals whose normalized stages fall in the three buckets in turn: the
\* first contains "Intake", the second "Submittal" (and no pre-submittal
\* word), the third "Closed" (and neither of the former).
MixedStages(ds) ==
    /\ Len(ds) = 3
    /\ LET n(i) == normalize_permit_stage(ds[i].dealstage)
           Pre(x) == \E w \in {S_FeeEstimate, S_Intake, S_PreSubmittal} : Contains(w, x)
       IN  /\ Contains(S_Intake, n(1))
           /\ Contains(S_Submittal, n(2)) /\ ~Pre(n(2))
           /\ Contains(S_Closed, n(3)) /\ ~Pre(n(3)) /\ ~Contains(S_Submittal, n(3))

\* The alert entry of a deal: id, project name, last-modified date, description.
AlertOf(d) ==
    [ id |-> d.id, name |-> d.dealname,
      date |-> d.hs_lastmodifieddate, description |-> d.description ]

Racing(u) ==
    /\ pc[u] = "build_sales_rep_map"
    /\ CacheTruthy(SALES_REP_CACHE)

\* The map a completed call of build_sales_rep_map returned.
ReturnedMap(l) == RepMapOf(l.reps)

\* C13 as stated, for calls whose searches both succeed: when the second of
\* two interleaved calls completes, the map it returns equals the map the
\* first returned and stored, and the cache still holds that map.
C13_RaceEquivalentMaps ==
    [][ \A u \in Tasks :
          (Racing(u) /\ pc'[u] = "done" /\ resp'[u].status = 200)
            => /\ ReturnedMap(loc'[u]) = SALES_REP_CACHE.map
               /\ SALES_REP_CACHE'.map = SALES_REP_CACHE.map
      ]_vars

\* C13, amended: when two calls to build_sales_rep_map start before the
\* cache is populated and interleave at the outbound HTTP call, neither is
\* failed by the other: each call whose contact search succeeds completes,
\* returns the map built from its own response (the dashboard uses it) and
\* stores it in the cache, so the cache afterwards holds the map of the call
\* that completed last; the two maps and the cache agree when the CRM
\* answered both searches with the same contacts.
C13_LastWriterWins ==
    [][ \A u \in Tasks :
          (pc[u] = "build_sales_rep_map" /\ pc'[u] # pc[u])
            => /\ pc'[u] = "done"
               /\ calls'[u][Len(calls'[u])].status = "ok"
                    => /\ resp'[u].status = 200
                       /\ resp'[u].body = GmDashboard(loc[u].deals, ReturnedMap(loc'[u]))
                       /\ SALES_REP_CACHE' = [none |-> FALSE, map |-> ReturnedMap(loc'[u])]
                       /\ \A t \in Tasks :
                            ( /\ Racing(u) /\ pc[t] = "done" /\ resp[t].status = 200
                              /\ Len(calls[t]) = 3 /\ SALES_REP_CACHE.map = ReturnedMap(loc[t])
                              /\ loc'[u].reps = loc[t].reps )
                            => /\ ReturnedMap(loc'[u]) = ReturnedMap(loc[t])
                               /\ SALES_REP_CACHE' = SALES_REP_CACHE
      ]_vars

\* Both tasks sent the contact search of build_sales_rep_map, both were
\* answered with the same two sales reps, both dashboards were served, and
\* the cache holds the map of both.  Neither map is empty, so neither call
\* can have started after the other had stored its map.
C13_Witness ==
    /\ \A t \in Tasks :
         /\ pc[t] = "done"
         /\ resp[t].status = 200
         /\ Len(calls[t]) = 3
         /\ calls[t][3].fn = "build_sales_rep_map"
         /\ calls[t][3].status = "ok"
         /\ loc[t].reps = <<R_Ann, R_Bob>>
    /\ SALES_REP_CACHE = [none |-> FALSE, map |-> RepMapOf(<<R_Ann, R_Bob>>)]

\* The requests get_pinned_note_for_deal has sent for task t: fetch_deal
\* calls it after get_deal, whose request is the first of the log.
NoteRequests(t) ==
    [i \in 1..(Len(calls[t]) - 1) |-> calls[t][i + 1].req]

\* The note search of task t was answered with success.
NoteSearched(t) ==
    /\ ep[t] = "fetch_deal"
    /\ Len(calls[t]) >= 2
    /\ calls[t][2].status = "ok"

\* C14 as stated: the lookup makes at most two outbound requests, and the
\* second, if any, is the GET of the note with the body-field selector.
C14_AtMostTwoRequests ==
    \A t \in Tasks :
        (ep[t] = "fetch_deal" /\ Len(calls[t]) >= 2)
            => /\ Len(NoteRequests(t)) <= 2
               /\ NoteRequests(t)[1] = Url("get_pinned_note_for_deal")
               /\ Len(NoteRequests(t)) = 2
                    => NoteRequests(t)[2] = Url("get_note_body_by_id")

\* C14, amended: get_pinned_note_for_deal first issues one note search; if
\* the search returns zero results it returns the absent value (the deal is
\* served with "No pinned updates.", not an error) and issues no further
\* request; otherwise it issues one GET of that note by id and then, when
\* that succeeded, one GET of the note with the body-field selector, so the
\* operation makes at most three outbound requests, in this order.
C14_NoteProtocol ==
    \A t \in Tasks :
        (ep[t] = "fetch_deal" /\ Len(calls[t]) >= 2)
            => /\ Len(NoteRequests(t)) <= 3
               /\ \A i \in 1..Len(NoteRequests(t)) :
                    NoteRequests(t)[i] =
                        << Url("get_pinned_note_for_deal"),
                           Url("get_pinned_note_for_deal/detail"),
                           Url("get_note_body_by_id") >>[i]
               /\ (NoteSearched(t) /\ loc[t].note_id = 0)
                    => /\ pc[t] = "done"
                       /\ Len(NoteRequests(t)) = 1
                       /\ resp[t].status = 200
                       /\ resp[t].body = DealDetail(<<>>)
               /\ (NoteSearched(t) /\ loc[t].note_id # 0)
                    => /\ Len(NoteRequests(t)) >= 2
                       /\ (pc[t] = "done" /\ resp[t].status = 200)
                            => Len(NoteRequests(t)) = 3

\* A deal with a note was served: the search, the GET of the note and the
\* GET of its body were sent, three requests after the one for the deal.
C14_Witness ==
    \E t \in Tasks :
        /\ pc[t] = "done"
        /\ ep[t] = "fetch_deal"
        /\ resp[t].status = 200
        /\ loc[t].note_id # 0
        /\ Len(calls[t]) = 4
        /\ calls[t][3].req = Url("get_pinned_note_for_deal/detail")
        /\ calls[t][4].req = Url("get_note_body_by_id")

\* The number of requests task t has sent through the client function f.
Sent(t, f) == Cardinality({i \in 1..Len(calls[t]) : calls[t][i].fn = f})

\* The handlers that invoke search_deals_by_sales_rep once.
OneSearchEndpoints ==
    { "get_deals_for_rep", "dashboard_summary", "get_deals_by_stage",
      "distinct_permit_stages", "dashboard_summary_by_email",
      "verify_wix_contact_email" }

\* C15: each search operation sends exactly one request per invocation,
\* whatever the number of results: a handler that searches the deals of one
\* rep or of one company, or a contact by email, has sent that search once,
\* also when the answer was a full page with a next page to follow; the PM
\* view, which invokes the deal search once per rep, has sent one search per
\* rep reached; and the listing endpoint returns the results array of that
\* single response and nothing else.
C15_NoPagination ==
    \A t \in Tasks :
        /\ Sent(t, "get_contact_by_email") <= 1
        /\ Sent(t, "search_deals_by_company") <= 1
        /\ ep[t] \in OneSearchEndpoints => Sent(t, "search_deals_by_sales_rep") <= 1
        /\ ep[t] = "sales_reps_for_pm"
             => /\ Sent(t, "search_deals_by_sales_rep") <= Len(loc[t].reps)
                /\ Sent(t, "search_deals_by_sales_rep") \in
                      {Len(loc[t].deals), Len(loc[t].deals) + 1}
                /\ (pc[t] = "done" /\ resp[t].status = 200 /\ loc[t].reps # <<>>)
                     => Sent(t, "search_deals_by_sales_rep") = Len(loc[t].reps)
        /\ (pc[t] = "done" /\ resp[t].status = 200)
             => /\ ep[t] \in OneSearchEndpoints \ {"dashboard_summary_by_email",
                                                     "verify_wix_contact_email"}
                     => Sent(t, "search_deals_by_sales_rep") = 1
                /\ ep[t] = "get_deals_for_rep" => resp[t].body = [list |-> loc[t].deals]
                /\ ep[t] = "gm_dashboard_summary" /\ Len(calls[t]) >= 2
                     => /\ Sent(t, "search_deals_by_company") = 1
                        /\ Len(resp[t].body.permits) = Len(loc[t].deals)

\* The listing of a rep's deals was answered with a full page, after one
\* search, with exactly the deals of that page.
C15_Witness ==
    \E t \in Tasks :
        /\ pc[t] = "done"
        /\ ep[t] = "get_deals_for_rep"
        /\ resp[t].status = 200
        /\ loc[t].deals = FullPage
        /\ Len(calls[t]) = 1
        /\ calls[t][1].req = Url("search_deals_by_sales_rep")
        /\ Len(resp[t].body.list) = MaxPage

-----------------------------------------------------------------------------
(* SpecGMKeys: the loop of get_gm_dashboard_data applied to deals whose    *)
(* dealstage is a raw key of PERMIT_STAGE_MAP.                             *)

\* The seven internal stage names.
StageKeys ==
    { K_FeeEstimate, K_Intake, K_PreSubmittal, K_Submittal,
      K_Approved, K_Closed, K_ClosedLost }

\* The results arrays of the company search, every deal in a known stage.
KeyDealLists ==
    UNION { { [i \in 1..n |-> [id |-> i, dealstage |-> f[i][1], sales_rep |-> f[i][2]]] :
                f \in [1..n -> StageKeys \X {None, N_Ann}] } : n \in 0..MaxDeals }

InitGMKeys ==
    /\ deals \in KeyDealLists
    /\ agent_email_map \in RepMaps
    /\ dashboard_data = EmptyDashboard
    /\ gm_i = 0
    /\ gm_pc = "loop"
    /\ IdleNorm
    /\ IdleServer

SpecGMKeys == InitGMKeys /\ [][NextGM]_vars

\* The summary counter the claim gives to each key.
KeyBucket(k) ==
    CASE k \in {K_FeeEstimate, K_Intake, K_PreSubmittal} -> "pre_submittal"
      [] k = K_Submittal -> "post_submittal"
      [] k \in {K_Approved, K_Closed, K_ClosedLost} -> "completed"

-----------------------------------------------------------------------------
(* Claims about the HTTP service: the cache after a failed search.         *)

\* The last request of task t in the next state was answered with an error.
FailedNow(t) ==
    /\ calls'[t] # <<>>
    /\ calls'[t][Len(calls'[t])].status = "error"

\* C17: if the contact search inside build_sales_rep_map fails with a
\* non-success status, the call raises (the request ends with 500) and
\* SALES_REP_CACHE keeps the value it had before the call; and as long as
\* the cache is unpopulated, a call of build_sales_rep_map sends the search
\* instead of serving a map.
C17_CacheUnchangedOnError ==
    [][ \A t \in Tasks :
          /\ (pc[t] = "build_sales_rep_map" /\ pc'[t] # pc[t] /\ FailedNow(t))
               => /\ SALES_REP_CACHE' = SALES_REP_CACHE
                  /\ pc'[t] = "done"
                  /\ resp'[t].status = 500
                  /\ resp'[t].body = InternalServerError
          /\ (pc[t] = "search_deals_by_company" /\ pc'[t] # pc[t] /\ ~FailedNow(t)
                 /\ SALES_REP_CACHE.none)
               => /\ pc'[t] = "build_sales_rep_map"
                  /\ Len(calls'[t]) = 3
                  /\ calls'[t][3].status = "pending"
      ]_vars

\* The first contact search of build_sales_rep_map failed: the request
\* ended with 500 and the cache is still unpopulated.
C17_Witness ==
    \E t \in Tasks :
        /\ pc[t] = "done"
        /\ ep[t] = "gm_dashboard_summary"
        /\ Len(calls[t]) = 3
        /\ calls[t][3].fn = "build_sales_rep_map"
        /\ calls[t][3].status = "error"
        /\ resp[t].status = 500
        /\ SALES_REP_CACHE = NoCache

====
